---- MODULE Spec2Model ----
(***************************************************************************)
(* Model of the UpFlux AI micro-service (src/ai_script/ai_service.py):     *)
(* the /ai/scheduling and /ai/clustering request handlers.                 *)
(*                                                                         *)
(* Instants are whole seconds.  An ISO-8601 timestamp string is modelled   *)
(* as the pair <<seconds, suffix>> with suffix "Z" or "+00:00"; the empty  *)
(* sequence is a null/empty nextIdleTime and a pair with any other suffix  *)
(* is a string that datetime.fromisoformat rejects.                        *)
(***************************************************************************)
EXTENDS Integers, Sequences, FiniteSets, TLC

VARIABLES pc, req, status, jobs, greedy, scheduled, prev, round,
          creq, cstatus, clusters, plotData, search,
          gpio, obs, mon

vars == <<pc, req, status, jobs, greedy, scheduled, prev, round,
          creq, cstatus, clusters, plotData, search,
          gpio, obs, mon>>

schedVars == <<req, status, jobs, greedy, scheduled, prev, round>>
clustVars == <<creq, cstatus, clusters, plotData, search>>
ledVars == <<gpio, obs, mon>>

\* the LED monitor script is not running
AllLow == [green |-> FALSE, yellow |-> FALSE, red |-> FALSE]
NoObservation == [none |-> TRUE]
LedIdle == gpio = AllLow /\ obs = NoObservation /\ mon = "off"

(***************************************************************************)
(* Program constants                                                       *)
(***************************************************************************)
UPDATE_PAYLOAD_SEC == 25
CLUSTER_SETUP_SEC == 5
MIN_CLUSTER_GAP_SEC == 30

(***************************************************************************)
(* Bounds of the explored inputs                                           *)
(***************************************************************************)
MaxClusters == 3
MaxRounds == 1

DeviceOrder == <<"d1", "d2", "d3">>
Devices == {DeviceOrder[i] : i \in 1..Len(DeviceOrder)}
NowValues == {0, 40}

Absent == [absent |-> TRUE]

EmptyString == <<>>
Garbage == <<0, "not-a-date">>

\* the idle records a device may come with in aggregatorData
IdleOptions ==
    { [nextIdleTime |-> <<0, "Z">>,       idleDurationSecs |-> 100],
      [nextIdleTime |-> <<0, "+00:00">>,  idleDurationSecs |-> 55],
      [nextIdleTime |-> <<0, "Z">>,       idleDurationSecs |-> 27],
      [nextIdleTime |-> <<40, "Z">>,      idleDurationSecs |-> 60],
      [nextIdleTime |-> EmptyString,      idleDurationSecs |-> 100],
      [nextIdleTime |-> Garbage,          idleDurationSecs |-> 100] }

Max2(a, b) == IF a >= b THEN a ELSE b
Min2(a, b) == IF a <= b THEN a ELSE b

(***************************************************************************)
(* Timestamp conversions                                                   *)
(***************************************************************************)
\* s.replace("Z", "+00:00")
ReplaceZ(s) == IF Len(s) = 2 /\ s[2] = "Z" THEN <<s[1], "+00:00">> ELSE s

\* does datetime.fromisoformat accept the string (it wants a numeric offset)
IsoParses(s) == Len(s) = 2 /\ s[2] = "+00:00"

\* datetime.fromisoformat(s): the instant, in seconds
FromIso(s) == s[1]

\* t.isoformat().replace("+00:00", "Z")
IsoZ(t) == <<t, "Z">>

\* datetime.fromisoformat(x.replace("Z", "+00:00")) for an accepted string
ParseTime(s) == FromIso(ReplaceZ(s))

(***************************************************************************)
(* idle_map = {a["deviceUuid"]: a for a in agg_list}: the last record of a  *)
(* device wins; a device without a record maps to Absent (dict.get -> None) *)
(***************************************************************************)
RECURSIVE IdleLookup(_, _, _)
IdleLookup(agg, d, i) ==
    IF i = 0 THEN Absent
    ELSE IF agg[i].deviceUuid = d THEN agg[i]
    ELSE IdleLookup(agg, d, i - 1)

IdleMap(agg, d) == IdleLookup(agg, d, Len(agg))

(***************************************************************************)
(* Feasibility stage: the inner loop over a cluster's devices.             *)
(* outcome "else"  : loop ran to completion (for ... else branch)          *)
(*         "break" : a member lacks idle data or has a too short window    *)
(*         "raise" : fromisoformat raised ValueError                       *)
(***************************************************************************)
\* variant: the setup time is left out of the minimum window length
TooShortPayloadOnly(dur) == dur < UPDATE_PAYLOAD_SEC

TooShort(dur) == dur < UPDATE_PAYLOAD_SEC + CLUSTER_SETUP_SEC

RECURSIVE DeviceWindows(_, _, _, _)
DeviceWindows(agg, devs, i, windows) ==
    IF i > Len(devs) THEN [outcome |-> "else", windows |-> windows]
    ELSE LET info == IdleMap(agg, devs[i]) IN
         IF info = Absent \/ info.nextIdleTime = EmptyString
         THEN [outcome |-> "break", windows |-> windows]
         ELSE IF ~IsoParses(ReplaceZ(info.nextIdleTime))
         THEN [outcome |-> "raise", windows |-> windows]
         ELSE LET start == FromIso(ReplaceZ(info.nextIdleTime))
                  dur   == info.idleDurationSecs
              IN IF TooShort(dur)
                 THEN [outcome |-> "break", windows |-> windows]
                 ELSE DeviceWindows(agg, devs, i + 1,
                                    Append(windows, <<start, start + dur>>))

RECURSIVE MaxStart(_, _)
MaxStart(windows, i) ==
    IF i = 1 THEN windows[1][1]
    ELSE Max2(windows[i][1], MaxStart(windows, i - 1))

RECURSIVE MinEnd(_, _)
MinEnd(windows, i) ==
    IF i = 1 THEN windows[1][2]
    ELSE Min2(windows[i][2], MinEnd(windows, i - 1))

\* variant: any non-empty intersection is taken as long enough
IntersectionNonEmpty(latest_start, earliest_end) == earliest_end >= latest_start

\* earliest_end >= latest_start + UPDATE_PAYLOAD_SEC
IntersectionFits(latest_start, earliest_end) ==
    earliest_end >= latest_start + UPDATE_PAYLOAD_SEC

\* the outer loop: [raised, jobs]
RECURSIVE BuildJobs(_, _, _, _)
BuildJobs(cs, agg, k, acc) ==
    IF k > Len(cs) THEN [raised |-> FALSE, jobs |-> acc]
    ELSE LET c == cs[k]
             devs == c.deviceUuids
         IN IF devs = <<>> THEN BuildJobs(cs, agg, k + 1, acc)
            ELSE LET r == DeviceWindows(agg, devs, 1, <<>>) IN
                 IF r.outcome = "raise" THEN [raised |-> TRUE, jobs |-> acc]
                 ELSE IF r.outcome = "break" THEN BuildJobs(cs, agg, k + 1, acc)
                 ELSE LET latest_start == MaxStart(r.windows, Len(r.windows))
                          earliest_end == MinEnd(r.windows, Len(r.windows))
                      IN IF IntersectionFits(latest_start, earliest_end)
                         THEN BuildJobs(cs, agg, k + 1,
                                  Append(acc, [clusterId   |-> c.clusterId,
                                               deviceUuids |-> devs,
                                               windowStart |-> latest_start,
                                               windowEnd   |-> earliest_end]))
                         ELSE BuildJobs(cs, agg, k + 1, acc)

(***************************************************************************)
(* jobs.sort(key=windowStart): a stable sort                               *)
(***************************************************************************)
RECURSIVE InsertJob(_, _)
InsertJob(sorted, j) ==
    IF sorted = <<>> THEN <<j>>
    ELSE IF sorted[Len(sorted)].windowStart <= j.windowStart
    THEN Append(sorted, j)
    ELSE Append(InsertJob(SubSeq(sorted, 1, Len(sorted) - 1), j),
                sorted[Len(sorted)])

\* variant: the feasible list is left in input order
SortJobsNone(js, n) == js

RECURSIVE SortJobs(_, _)
SortJobs(js, n) ==
    IF n = 0 THEN <<>> ELSE InsertJob(SortJobs(js, n - 1), js[n])

(***************************************************************************)
(* Placement stage (greedy sweep)                                          *)
(***************************************************************************)
\* variant: the setup lead time is left out of the start
GreedyStartNoSetup(j, current, now) == Max2(j.windowStart, current)

\* start = max(j.windowStart, current, now + CLUSTER_SETUP_SEC)
GreedyStart(j, current, now) ==
    Max2(Max2(j.windowStart, current), now + CLUSTER_SETUP_SEC)

\* variant: the cursor advances by the payload only
NextCurrentPayloadOnly(start) == start + UPDATE_PAYLOAD_SEC

\* current = start + max(UPDATE_PAYLOAD_SEC, MIN_CLUSTER_GAP_SEC)
NextCurrent(start) == start + Max2(UPDATE_PAYLOAD_SEC, MIN_CLUSTER_GAP_SEC)

RECURSIVE Placement(_, _, _, _, _)
Placement(js, i, current, now, acc) ==
    IF i > Len(js) THEN acc
    ELSE LET j == js[i]
             start == GreedyStart(j, current, now)
         IN IF start + UPDATE_PAYLOAD_SEC <= j.windowEnd
            THEN Placement(js, i + 1, NextCurrent(start), now,
                     Append(acc, [clusterId     |-> j.clusterId,
                                  deviceUuids   |-> j.deviceUuids,
                                  updateTimeUtc |-> IsoZ(start)]))
            ELSE Placement(js, i + 1, current, now, acc)

(***************************************************************************)
(* Repair stage (left shift).  i is the 1-based position, the code's       *)
(* range(1, len(scheduled)) being positions 2..Len; the window is          *)
(* jobs[i], the job at the same position of the sorted feasible list.      *)
(***************************************************************************)
RepairWindow(js, sch, i) == js[i]

\* variant: the ideal start ignores the end of the previous job
RepairIdealNoPrev(prev_end, windowStart) == windowStart

\* variant: the ideal start keeps the minimum gap after the previous job
RepairIdealWithGap(prev_end, windowStart) ==
    Max2(prev_end + MIN_CLUSTER_GAP_SEC, windowStart)

RepairIdeal(prev_end, windowStart) == Max2(prev_end, windowStart)

RECURSIVE Repair(_, _, _)
Repair(sch, js, i) ==
    IF i > Len(sch) THEN sch
    ELSE LET prev_end == ParseTime(sch[i - 1].updateTimeUtc) + UPDATE_PAYLOAD_SEC
             w        == RepairWindow(js, sch, i)
             ideal    == RepairIdeal(prev_end, w.windowStart)
         IN IF ideal + UPDATE_PAYLOAD_SEC <= w.windowEnd
            THEN Repair([sch EXCEPT ![i].updateTimeUtc = IsoZ(ideal)], js, i + 1)
            ELSE Repair(sch, js, i + 1)

(***************************************************************************)
(* Requests                                                                *)
(***************************************************************************)
NoRequest == [kind |-> "none"]

\* clusterId of the k-th input cluster: the label as a string
ClusterLabel(k, noiseIdx) == IF k = noiseIdx THEN "-1" ELSE ToString(k - 1)

MembersOf(assign, k) == SelectSeq(DeviceOrder, LAMBDA d : assign[d] = k)

ClustersFrom(assign, noiseIdx) ==
    [k \in 1..MaxClusters |->
        [clusterId |-> ClusterLabel(k, noiseIdx), deviceUuids |-> MembersOf(assign, k)]]

RECURSIVE AggFrom(_, _)
AggFrom(choice, i) ==
    IF i = 0 THEN <<>>
    ELSE LET d == DeviceOrder[i]
             rest == AggFrom(choice, i - 1)
         IN IF choice[d] = Absent THEN rest
            ELSE Append(rest, [deviceUuid       |-> d,
                               nextIdleTime     |-> choice[d].nextIdleTime,
                               idleDurationSecs |-> choice[d].idleDurationSecs])

\* a request body with a clusters field
WithClusters(assign, noiseIdx, choice, now) ==
    [kind |-> "scheduling", hasClusters |-> TRUE,
     clusters |-> ClustersFrom(assign, noiseIdx),
     aggregatorData |-> AggFrom(choice, Len(DeviceOrder)), now |-> now]

\* a request body without the clusters field
WithoutClusters(choice, now) ==
    [kind |-> "scheduling", hasClusters |-> FALSE,
     clusters |-> <<>>,
     aggregatorData |-> AggFrom(choice, Len(DeviceOrder)), now |-> now]

NoPrev == [none |-> TRUE]
NoSearch == [none |-> TRUE]

InitSched ==
    /\ pc = "received"
    /\ \E choice \in [Devices -> IdleOptions \cup {Absent}], now \in NowValues :
          \/ \E assign \in [Devices -> 0..MaxClusters], noiseIdx \in 0..1 :
                req = WithClusters(assign, noiseIdx, choice, now)
          \/ req = WithoutClusters(choice, now)
    /\ status = 0
    /\ jobs = <<>>
    /\ greedy = <<>>
    /\ scheduled = <<>>
    /\ prev = NoPrev
    /\ round = 0
    /\ creq = NoRequest
    /\ cstatus = 0
    /\ clusters = <<>>
    /\ plotData = <<>>
    /\ search = NoSearch
    /\ LedIdle

(***************************************************************************)
(* POST /ai/scheduling                                                     *)
(***************************************************************************)
\* req.get("clusters", [])
ClustersInput(r) == IF r.hasClusters THEN r.clusters ELSE <<>>

scheduling ==
    /\ pc = "received"
    /\ req.kind = "scheduling"
    /\ \E built \in {BuildJobs(ClustersInput(req), req.aggregatorData, 1, <<>>)} :
          IF built.raised
          THEN /\ status' = 500
               /\ jobs' = <<>>
               /\ greedy' = <<>>
               /\ scheduled' = <<>>
          ELSE \E sorted \in {SortJobs(built.jobs, Len(built.jobs))} :
               \E placed \in {Placement(sorted, 1, req.now, req.now, <<>>)} :
                  /\ status' = 200
                  /\ jobs' = sorted
                  /\ greedy' = placed
                  /\ scheduled' = Repair(placed, sorted, 2)
    /\ pc' = "responded"
    /\ UNCHANGED <<req, prev, round>>
    /\ UNCHANGED clustVars
    /\ UNCHANGED ledVars

\* the caller feeds the returned clusters back in, idle data and clock unchanged
StripTimes(sch) ==
    [i \in 1..Len(sch) |->
        [clusterId |-> sch[i].clusterId, deviceUuids |-> sch[i].deviceUuids]]

Resubmit ==
    /\ pc = "responded"
    /\ req.kind = "scheduling"
    /\ status = 200
    /\ round < MaxRounds
    /\ prev' = [how |-> "fedback", request |-> req, jobs |-> jobs,
                scheduled |-> scheduled]
    /\ req' = [req EXCEPT !.hasClusters = TRUE, !.clusters = StripTimes(scheduled)]
    /\ round' = round + 1
    /\ pc' = "received"
    /\ UNCHANGED <<status, jobs, greedy, scheduled>>
    /\ UNCHANGED clustVars
    /\ UNCHANGED ledVars

(***************************************************************************)
(* Vocabulary of the scheduling properties, stated from the request alone  *)
(***************************************************************************)
Responded == pc = "responded" /\ req.kind = "scheduling"

Members(c) == {c.deviceUuids[i] : i \in 1..Len(c.deviceUuids)}

IdleRecords(d) ==
    {req.aggregatorData[i] : i \in {n \in 1..Len(req.aggregatorData) :
                                       req.aggregatorData[n].deviceUuid = d}}

HasIdleWindow(d) ==
    /\ IdleRecords(d) # {}
    /\ \A a \in IdleRecords(d) :
          a.nextIdleTime # EmptyString /\ a.nextIdleTime[2] \in {"Z", "+00:00"}

IdleStart(d) == (CHOOSE a \in IdleRecords(d) : TRUE).nextIdleTime[1]
IdleEnd(d) == LET a == CHOOSE r \in IdleRecords(d) : TRUE
              IN a.nextIdleTime[1] + a.idleDurationSecs
IdleDuration(d) == (CHOOSE a \in IdleRecords(d) : TRUE).idleDurationSecs

\* intersection of the idle windows of a cluster's member devices
WindowStartOf(c) == CHOOSE t \in {IdleStart(d) : d \in Members(c)} :
                       \A d \in Members(c) : IdleStart(d) <= t
WindowEndOf(c) == CHOOSE t \in {IdleEnd(d) : d \in Members(c)} :
                     \A d \in Members(c) : t <= IdleEnd(d)

TimeOf(job) == job.updateTimeUtc[1]

AsCluster(j) == [clusterId |-> j.clusterId, deviceUuids |-> j.deviceUuids]

SomeDroppedInPlacement == Len(scheduled) < Len(jobs)

\* the four conditions under which a cluster is schedulable, from the request
FeasibleCluster(c) ==
    /\ c.deviceUuids # <<>>
    /\ \A d \in Members(c) : HasIdleWindow(d)
    /\ \A d \in Members(c) : IdleDuration(d) >= UPDATE_PAYLOAD_SEC + CLUSTER_SETUP_SEC
    /\ WindowEndOf(c) - WindowStartOf(c) >= UPDATE_PAYLOAD_SEC

\* s without its k-th element
RemoveAt(s, k) == SubSeq(s, 1, k - 1) \o SubSeq(s, k + 1, Len(s))

\* the caller sends the request again without one of its clusters that is
\* not schedulable, idle data and clock unchanged
Withdraw ==
    /\ pc = "responded"
    /\ req.kind = "scheduling"
    /\ status = 200
    /\ round < MaxRounds
    /\ req.hasClusters
    /\ \E k \in 1..Len(req.clusters) :
          /\ req.clusters[k].deviceUuids # <<>>
          /\ ~FeasibleCluster(req.clusters[k])
          /\ prev' = [how |-> "withdrawn", request |-> req, jobs |-> jobs,
                      scheduled |-> scheduled, withdrawn |-> req.clusters[k]]
          /\ req' = [req EXCEPT !.clusters = RemoveAt(req.clusters, k)]
    /\ round' = round + 1
    /\ pc' = "received"
    /\ UNCHANGED <<status, jobs, greedy, scheduled>>
    /\ UNCHANGED clustVars
    /\ UNCHANGED ledVars

NextSched == scheduling \/ Resubmit \/ Withdraw

SpecSched == InitSched /\ [][NextSched]_vars

(***************************************************************************)
(* POST /ai/clustering                                                     *)
(*                                                                         *)
(* A telemetry record is [deviceUuid, pos]: pos stands for the record's    *)
(* standardized feature vector (the row of X_scaled), a point on a line in *)
(* tenths, so that the Euclidean distance of two rows is |pos1 - pos2|.    *)
(* The plot coordinates x, y are left out of the plotData entries.         *)
(***************************************************************************)
TARGET_TOTAL_POINTS == 100
TARGET_CLUSTERS == 6
NumFeatures == 4
NumComponents == 2

MaxN == 3
MaxFleet == 8

\* distances between neighbouring devices of a larger fleet, in tenths
Gaps == {8, 25}

RealIds == {"d1", "d2", "d3", "synthetic_0000"}
Positions == {0, 10}

\* np.arange(0.4, 2.05, 0.1), in tenths
EPS_RANGE == [k \in 1..17 |-> k + 3]

Abs(a) == IF a < 0 THEN 0 - a ELSE a

\* the points density-reachable from the set S with radius eps, min_samples=1
RECURSIVE Reachable(_, _, _)
Reachable(X, eps, S) ==
    LET T == S \cup {j \in 1..Len(X) : \E i \in S : Abs(X[i] - X[j]) <= eps}
    IN IF T = S THEN S ELSE Reachable(X, eps, T)

\* for every point, the first point of its connected component
ComponentFirsts(X, eps) ==
    SubSeq([j \in 1..Len(X) |->
               LET comp == Reachable(X, eps, {j})
               IN CHOOSE m \in comp : \A n \in comp : m <= n],
           1, Len(X))

\* clusters are numbered from 0 in the order of their first point
NumberComponents(first) ==
    SubSeq([i \in 1..Len(first) |->
               Cardinality({first[j] : j \in 1..Len(first)} \cap 1..(first[i] - 1))],
           1, Len(first))

\* DBSCAN(eps, min_samples=1).fit_predict(X): every point is a core point and
\* a cluster is a connected component of the eps-neighbourhood graph
DBSCAN(X, eps) ==
    CHOOSE lbl \in {NumberComponents(first) : first \in {ComponentFirsts(X, eps)}} : TRUE

\* len({l for l in lbl if l != -1})
NClusters(lbl) == Cardinality({lbl[i] : i \in 1..Len(lbl)} \ {-1})

\* the radius search loop from candidate k on; best_lbl is <<>> while nothing
\* was kept (None).  The result holds the kept labelling and radius and the
\* number of candidates the loop evaluated.
RECURSIVE RadiusSearch(_, _, _, _, _)

SearchResult(best_eps, best_lbl, evaluated) ==
    [best_eps |-> best_eps, best_lbl |-> best_lbl, evaluated |-> evaluated]

RECURSIVE RadiusStepLastWins(_, _, _, _, _, _)
\* variant: a candidate with an equal diff replaces the one kept
RadiusStepLastWins(X, k, best_eps, best_diff, best_lbl, lbl) ==
    LET diff == Abs(NClusters(lbl) - TARGET_CLUSTERS)
        step(n, e, d, l) ==
            CHOOSE r \in {RadiusStepLastWins(X, n, e, d, l, nl) :
                             nl \in {DBSCAN(X, EPS_RANGE[n])}} : TRUE
        next(e, d, l) ==
            IF k + 1 > Len(EPS_RANGE) THEN SearchResult(e, l, k)
            ELSE step(k + 1, e, d, l)
    IN IF diff <= best_diff
       THEN IF diff = 0 THEN SearchResult(EPS_RANGE[k], lbl, k)
            ELSE next(EPS_RANGE[k], diff, lbl)
       ELSE IF diff = 0 THEN SearchResult(best_eps, best_lbl, k)
            ELSE next(best_eps, best_diff, best_lbl)

\* one iteration of the loop, lbl being the labelling of candidate k
RadiusStep(X, k, best_eps, best_diff, best_lbl, lbl) ==
    LET diff == Abs(NClusters(lbl) - TARGET_CLUSTERS)
    IN IF diff < best_diff
       THEN IF diff = 0 THEN SearchResult(EPS_RANGE[k], lbl, k)
            ELSE RadiusSearch(X, k + 1, EPS_RANGE[k], diff, lbl)
       ELSE IF diff = 0 THEN SearchResult(best_eps, best_lbl, k)
            ELSE RadiusSearch(X, k + 1, best_eps, best_diff, best_lbl)

RadiusSearch(X, k, best_eps, best_diff, best_lbl) ==
    IF k > Len(EPS_RANGE) THEN SearchResult(best_eps, best_lbl, k - 1)
    ELSE CHOOSE r \in {RadiusStep(X, k, best_eps, best_diff, best_lbl, lbl) :
                          lbl \in {DBSCAN(X, EPS_RANGE[k])}} : TRUE

BigDiff == 1000000000

\* PCA(n_components=2).fit_transform(X): ValueError unless
\* n_components <= min(n_samples, n_features)
PcaFits(n_samples) == NumComponents <= Min2(n_samples, NumFeatures)

\* f"{lbl}"
LabelString(lbl) == ToString(lbl)

\* real_cluster_map.setdefault(cid, []).append(real_ids[i]): an ordered dict,
\* kept as a sequence of [clusterId, deviceUuids] in insertion order
MapAppend(m, cid, dev) ==
    IF \E k \in 1..Len(m) : m[k].clusterId = cid
    THEN [k \in 1..Len(m) |->
            IF m[k].clusterId = cid
            THEN [m[k] EXCEPT !.deviceUuids = Append(@, dev)] ELSE m[k]]
    ELSE Append(m, [clusterId |-> cid, deviceUuids |-> <<dev>>])

RECURSIVE RealClusterMap(_, _, _)
RealClusterMap(real_ids, labels, n) ==
    IF n = 0 THEN <<>>
    ELSE MapAppend(RealClusterMap(real_ids, labels, n - 1),
                   LabelString(labels[n]), real_ids[n])

RealPlotData(real_ids, labels) ==
    [i \in 1..Len(real_ids) |->
        [deviceUuid |-> real_ids[i], clusterId |-> LabelString(labels[i]),
         isSynthetic |-> FALSE]]

\* Python round(n / d): round half to even
RoundHalfEven(n, d) ==
    LET q == n \div d
        r == n % d
    IN IF 2 * r < d THEN q
       ELSE IF 2 * r > d THEN q + 1
       ELSE IF q % 2 = 0 THEN q ELSE q + 1

\* f"synthetic_{fake_id:04d}"
SyntheticId(fake_id) ==
    "synthetic_" \o (IF fake_id < 10 THEN "000"
                     ELSE IF fake_id < 100 THEN "00"
                     ELSE IF fake_id < 1000 THEN "0" ELSE "") \o ToString(fake_id)

\* the loop over real_centroids: [plot, fake_id, syn_cluster_idx]
RECURSIVE Synthesize(_, _, _, _, _, _, _)
Synthesize(m, k, n_fake, total_real, plot, fake_id, syn_cluster_idx) ==
    IF k > Len(m)
    THEN [plot |-> plot, fake_id |-> fake_id, syn_cluster_idx |-> syn_cluster_idx]
    ELSE IF m[k].clusterId = "-1"
    THEN Synthesize(m, k + 1, n_fake, total_real, plot, fake_id, syn_cluster_idx)
    ELSE LET share == RoundHalfEven(n_fake * Len(m[k].deviceUuids), total_real)
         IN IF share = 0
            THEN Synthesize(m, k + 1, n_fake, total_real, plot, fake_id,
                            syn_cluster_idx)
            ELSE Synthesize(m, k + 1, n_fake, total_real,
                     plot \o [i \in 1..share |->
                                [deviceUuid  |-> SyntheticId(fake_id + i - 1),
                                 clusterId   |-> m[k].clusterId,
                                 isSynthetic |-> TRUE]],
                     fake_id + share, syn_cluster_idx + 1)

RECURSIVE TotalReal(_, _)
TotalReal(m, k) == IF k = 0 THEN 0 ELSE Len(m[k].deviceUuids) + TotalReal(m, k - 1)

\* [{"clusterId": f"S{k}", "deviceUuids": []} for k in range(1, syn_cluster_idx)]
PlaceholderClusters(syn_cluster_idx) ==
    [k \in 1..(syn_cluster_idx - 1) |->
        [clusterId |-> "S" \o ToString(k), deviceUuids |-> <<>>]]

\* a larger fleet: devices f1..fn on a line, gaps[i] between neighbours
RECURSIVE FleetPos(_, _)
FleetPos(gaps, i) == IF i = 1 THEN 0 ELSE FleetPos(gaps, i - 1) + gaps[i - 1]

Fleet(n, gaps) ==
    [i \in 1..n |-> [deviceUuid |-> "f" \o ToString(i), pos |-> FleetPos(gaps, i)]]

InitClust ==
    /\ pc = "received"
    /\ \/ \E n \in 0..MaxN : \E ids \in [1..n -> RealIds], xs \in [1..n -> Positions] :
             creq = [kind |-> "clustering",
                     data |-> [i \in 1..n |-> [deviceUuid |-> ids[i], pos |-> xs[i]]]]
       \/ \E n \in TARGET_CLUSTERS..MaxFleet : \E gaps \in [1..(n - 1) -> Gaps] :
             creq = [kind |-> "clustering", data |-> Fleet(n, gaps)]
    /\ cstatus = 0
    /\ clusters = <<>>
    /\ plotData = <<>>
    /\ search = NoSearch
    /\ LedIdle
    /\ req = NoRequest
    /\ status = 0
    /\ jobs = <<>>
    /\ greedy = <<>>
    /\ scheduled = <<>>
    /\ prev = NoPrev
    /\ round = 0

Fail(code) ==
    /\ cstatus' = code
    /\ clusters' = <<>>
    /\ plotData' = <<>>
    /\ search' = NoSearch

clustering ==
    /\ pc = "received"
    /\ creq.kind = "clustering"
    /\ LET data == creq.data
           real_ids == [i \in 1..Len(data) |-> data[i].deviceUuid]
           X_scaled == [i \in 1..Len(data) |-> data[i].pos]
       IN IF data = <<>> THEN Fail(400)
          ELSE \E found \in {RadiusSearch(SubSeq(X_scaled, 1, Len(data)), 1,
                                             EPS_RANGE[1], BigDiff, <<>>)} :
               \E labels \in {found.best_lbl} :
               \E m \in {RealClusterMap(real_ids, labels, Len(real_ids))} :
               LET n_real == Len(real_ids)
                   n_fake == Max2(0, TARGET_TOTAL_POINTS - n_real)
               IN \E syn \in {Synthesize(m, 1, n_fake, TotalReal(m, Len(m)),
                                         RealPlotData(real_ids, labels), 0, 1)} :
                  IF ~PcaFits(Len(data)) THEN Fail(500)
                  \* syn_cluster_idx is only bound inside "if n_fake:"
                  ELSE IF n_fake = 0 THEN Fail(500)
                  ELSE /\ cstatus' = 200
                       /\ clusters' = m \o PlaceholderClusters(syn.syn_cluster_idx)
                       /\ plotData' = syn.plot
                       /\ search' = [best_eps |-> found.best_eps,
                                     evaluated |-> found.evaluated]
    /\ pc' = "responded"
    /\ UNCHANGED creq
    /\ UNCHANGED schedVars
    /\ UNCHANGED ledVars

\* the idle record the caller attaches to every device of a forwarded response
ForwardIdle ==
    { [nextIdleTime |-> <<0, "Z">>, idleDurationSecs |-> 1000],
      [nextIdleTime |-> <<0, "Z">>, idleDurationSecs |-> 27] }

\* the caller passes the clusters of a clustering response to the scheduling
\* operation, with an idle record for every device it sent
Forward ==
    /\ pc = "responded"
    /\ creq.kind = "clustering"
    /\ cstatus = 200
    /\ \E idle \in ForwardIdle :
          req' = [kind |-> "scheduling", hasClusters |-> TRUE,
                  clusters |-> clusters,
                  aggregatorData |->
                      [i \in 1..Len(creq.data) |->
                          [deviceUuid       |-> creq.data[i].deviceUuid,
                           nextIdleTime     |-> idle.nextIdleTime,
                           idleDurationSecs |-> idle.idleDurationSecs]],
                  now |-> 0]
    /\ creq' = [kind |-> "forwarded", data |-> creq.data]
    /\ pc' = "received"
    /\ UNCHANGED <<status, jobs, greedy, scheduled, prev, round>>
    /\ UNCHANGED <<cstatus, clusters, plotData, search>>
    /\ UNCHANGED ledVars

NextClust == clustering \/ Forward \/ scheduling

SpecClust == InitClust /\ [][NextClust]_vars

(***************************************************************************)
(* The device availability monitor: one polling loop driving three LEDs    *)
(***************************************************************************)
\* the last line of a log file, as its characters
LogLines ==
    { <<>>,
      <<"s","t","a","t","u","s"," ","i","n","s","t","a","l","l","e","d">>,
      <<"E","R","R","O","R">>,
      <<"n","o"," ","e","r","r","o","r","s">>,
      <<"o","k">> }

\* the stdout of pgrep: nothing, or the pid it found
PgrepOutputs == {<<>>, <<"412">>}

\* str.lower(), over the letters the log lines are written with
LowerChar(c) ==
    CASE c = "E" -> "e"
      [] c = "R" -> "r"
      [] c = "O" -> "o"
      [] OTHER   -> c

Lower(s) == [i \in 1..Len(s) |-> LowerChar(s[i])]

\* pat in s
Contains(s, pat) ==
    \E i \in 0..(Len(s) - Len(pat)) : SubSeq(s, i + 1, i + Len(pat)) = pat

ErrorWord == <<"e","r","r","o","r">>
StatusInstalled == <<"s","t","a","t","u","s"," ","i","n","s","t","a","l","l","e","d">>

\* what one iteration reads from the pin, the process list and the logs
Observations ==
    { [warmupPin |-> w, pgrep |-> p, apt |-> a, dpkg |-> d,
       tail |-> t, dpkgLog |-> l1, upfluxLog |-> l2] :
        w \in {"HIGH", "LOW"}, p \in {"ran"}, a \in PgrepOutputs, d \in PgrepOutputs,
        t \in {"ran"}, l1 \in LogLines, l2 \in LogLines }
    \cup
    { [warmupPin |-> w, pgrep |-> "SubprocessError", apt |-> <<>>, dpkg |-> <<>>,
       tail |-> t, dpkgLog |-> l1, upfluxLog |-> l2] :
        w \in {"HIGH", "LOW"}, t \in {"ran"}, l1 \in LogLines, l2 \in LogLines }
    \cup
    { [warmupPin |-> w, pgrep |-> "ran", apt |-> a, dpkg |-> d,
       tail |-> "SubprocessError", dpkgLog |-> <<>>, upfluxLog |-> <<>>] :
        w \in {"HIGH", "LOW"}, a \in PgrepOutputs, d \in PgrepOutputs }

set_green_led  == [green |-> TRUE,  yellow |-> FALSE, red |-> FALSE]
set_yellow_led == [green |-> FALSE, yellow |-> TRUE,  red |-> FALSE]
set_red_led    == [green |-> FALSE, yellow |-> FALSE, red |-> TRUE]

is_package_installing(o) ==
    IF o.pgrep = "SubprocessError" THEN FALSE
    ELSE o.apt # <<>> \/ o.dpkg # <<>>

\* None when tail raised a SubprocessError
NoLogData == <<>>

get_log_tail(o) ==
    IF o.tail = "SubprocessError" THEN NoLogData
    ELSE <<Lower(o.dpkgLog), Lower(o.upfluxLog)>>

is_installation_failed(log_data) ==
    Contains(log_data[1], ErrorWord) \/ Contains(log_data[2], ErrorWord)

is_installation_success(log_data) == Contains(log_data[1], StatusInstalled)

is_rgb_sensor_warming_up(o) == o.warmupPin = "HIGH"

\* variant: the failure test comes before the installation test
IndicateFailedFirst(o) ==
    LET log_data == get_log_tail(o)
    IN IF is_rgb_sensor_warming_up(o) THEN "yellow"
       ELSE IF log_data = NoLogData THEN "TypeError"
       ELSE IF is_installation_failed(log_data) THEN "red"
       ELSE IF is_package_installing(o) THEN "yellow"
       ELSE IF is_installation_success(log_data) THEN "green"
       ELSE "green"

\* the if/elif chain of one iteration: the LED it lights, or the TypeError
\* of subscripting None
Indicate(o) ==
    LET log_data == get_log_tail(o)
    IN IF is_rgb_sensor_warming_up(o) THEN "yellow"
       ELSE IF is_package_installing(o) THEN "yellow"
       ELSE IF log_data = NoLogData THEN "TypeError"
       ELSE IF is_installation_failed(log_data) THEN "red"
       ELSE IF is_installation_success(log_data) THEN "green"
       ELSE "green"

InitLed ==
    /\ gpio = AllLow
    /\ obs = NoObservation
    /\ mon = "started"
    /\ pc = "idle"
    /\ req = NoRequest
    /\ status = 0
    /\ jobs = <<>>
    /\ greedy = <<>>
    /\ scheduled = <<>>
    /\ prev = NoPrev
    /\ round = 0
    /\ creq = NoRequest
    /\ cstatus = 0
    /\ clusters = <<>>
    /\ plotData = <<>>
    /\ search = NoSearch

\* one iteration of the while loop, up to time.sleep(2); an exception
\* leaves the loop and the handler calls GPIO.cleanup()
Poll ==
    /\ mon \in {"started", "sleeping"}
    /\ \E o \in Observations : \E led \in {Indicate(o)} :
          /\ obs' = o
          /\ IF led = "TypeError"
             THEN gpio' = AllLow /\ mon' = "stopped"
             ELSE /\ gpio' = (CASE led = "yellow" -> set_yellow_led
                                [] led = "red"    -> set_red_led
                                [] OTHER          -> set_green_led)
                  /\ mon' = "sleeping"
    /\ UNCHANGED pc
    /\ UNCHANGED schedVars
    /\ UNCHANGED clustVars

\* KeyboardInterrupt while the loop sleeps: GPIO.cleanup()
Interrupt ==
    /\ mon = "sleeping"
    /\ gpio' = AllLow
    /\ mon' = "stopped"
    /\ UNCHANGED obs
    /\ UNCHANGED pc
    /\ UNCHANGED schedVars
    /\ UNCHANGED clustVars

NextLed == Poll \/ Interrupt

SpecLed == InitLed /\ [][NextLed]_vars

(***************************************************************************)
(* C1: every returned cluster's final updateTimeUtc t lies in the          *)
(* intersection of the idle windows of its own member devices:             *)
(* windowStart <= t and t + payloadDuration <= windowEnd.                  *)
(***************************************************************************)
C1_UpdateTimeInsideOwnWindow ==
    (Responded /\ status = 200) =>
        \A i \in 1..Len(scheduled) :
            /\ WindowStartOf(scheduled[i]) <= TimeOf(scheduled[i])
            /\ TimeOf(scheduled[i]) + UPDATE_PAYLOAD_SEC <= WindowEndOf(scheduled[i])

(***************************************************************************)
(* C2: in the returned list every job starts no earlier than the end       *)
(* (start + payloadDuration) of the job before it: no two updates overlap. *)
(***************************************************************************)
C2_NoOverlapAfterRepair ==
    (Responded /\ status = 200) =>
        \A i \in 1..(Len(scheduled) - 1) :
            TimeOf(scheduled[i + 1]) >= TimeOf(scheduled[i]) + UPDATE_PAYLOAD_SEC

\* two jobs returned, one feasible cluster dropped in placement, repair moved a job
C2_Witness ==
    /\ Responded /\ status = 200
    /\ Len(scheduled) >= 2
    /\ SomeDroppedInPlacement
    /\ scheduled # greedy

(***************************************************************************)
(* C3: after placement and before repair, the gap between one accepted     *)
(* job's end (start + payloadDuration) and the next accepted job's start   *)
(* is at least minimumInterClusterGap.                                     *)
(***************************************************************************)
C3_GreedyGapAtLeastMinGap ==
    (Responded /\ status = 200) =>
        \A i \in 1..(Len(greedy) - 1) :
            TimeOf(greedy[i + 1]) - (TimeOf(greedy[i]) + UPDATE_PAYLOAD_SEC)
                >= MIN_CLUSTER_GAP_SEC

(***************************************************************************)
(* C4: idempotence: scheduling the clusters returned by a run again, with  *)
(* the same clock and idle data, returns the same clusters and times.      *)
(***************************************************************************)
C4_Idempotent ==
    (Responded /\ status = 200 /\ round >= 1 /\ prev.how = "fedback")
        => scheduled = prev.scheduled

(***************************************************************************)
(* C5: a cluster whose clusterId is "-1" (noise) is never in the output.   *)
(***************************************************************************)
C5_NoiseNeverScheduled ==
    Responded => \A i \in 1..Len(scheduled) : scheduled[i].clusterId # "-1"

(***************************************************************************)
(* C6: a cluster reaches placement iff it has a device, every member has   *)
(* an idle record with a nextIdleTime, every member window lasts at least  *)
(* payload + setup and the intersection lasts at least payload; any other  *)
(* cluster is absent from the output and the request still succeeds.       *)
(***************************************************************************)
InputClusters == {ClustersInput(req)[k] : k \in 1..Len(ClustersInput(req))}

AllTimestampsParse ==
    \A n \in 1..Len(req.aggregatorData) :
        LET s == req.aggregatorData[n].nextIdleTime
        IN s = EmptyString \/ s[2] \in {"Z", "+00:00"}

C6_FeasibilityStage ==
    Responded =>
        /\ AllTimestampsParse => status = 200
        /\ status = 200 =>
              /\ {AsCluster(jobs[i]) : i \in 1..Len(jobs)}
                    = {c \in InputClusters : FeasibleCluster(c)}
              /\ Len(jobs) = Cardinality({c \in InputClusters : FeasibleCluster(c)})
              /\ \A i \in 1..Len(scheduled) : FeasibleCluster(AsCluster(scheduled[i]))

\* a feasible cluster next to a cluster dropped only for its short intersection
C6_Witness ==
    /\ Responded /\ status = 200 /\ round = 0
    /\ Len(jobs) >= 1
    /\ \E c \in InputClusters :
          /\ Cardinality(Members(c)) >= 2
          /\ \A d \in Members(c) :
                HasIdleWindow(d) /\ IdleDuration(d) >= UPDATE_PAYLOAD_SEC + CLUSTER_SETUP_SEC
          /\ ~FeasibleCluster(c)

(***************************************************************************)
(* C7: a request body without a clusters field is rejected with a client   *)
(* error (4xx), never answered with a successful schedule.                 *)
(***************************************************************************)
C7_MissingClustersRejected ==
    (Responded /\ ~req.hasClusters) => status \in 400..499

(***************************************************************************)
(* C8: if the nextIdleTime supplied for a member device of a requested     *)
(* cluster cannot be parsed, the whole request fails (no successful        *)
(* response), whatever the device's position in its cluster and whatever   *)
(* the idle data of the cluster's other members.                           *)
(***************************************************************************)
Unparseable(d) ==
    \E a \in IdleRecords(d) :
        a.nextIdleTime # EmptyString /\ a.nextIdleTime[2] \notin {"Z", "+00:00"}

C8_UnparseableTimestampFails ==
    (Responded /\ \E c \in InputClusters : \E d \in Members(c) : Unparseable(d))
        => status # 200

(***************************************************************************)
(* Vocabulary of the clustering properties                                 *)
(***************************************************************************)
ClustResponded == pc = "responded" /\ creq.kind = "clustering"

InputIds == {creq.data[i].deviceUuid : i \in 1..Len(creq.data)}

DistinctIds == Cardinality(InputIds) = Len(creq.data)

\* the positions <<k, i>> at which device d is listed in the returned clusters
Listings(d) ==
    {ki \in (1..Len(clusters)) \X (1..Len(creq.data)) :
        /\ ki[2] <= Len(clusters[ki[1]].deviceUuids)
        /\ clusters[ki[1]].deviceUuids[ki[2]] = d}

RealPlotEntries(d) ==
    {i \in 1..Len(plotData) : plotData[i].deviceUuid = d /\ ~plotData[i].isSynthetic}

SyntheticEntries == {i \in 1..Len(plotData) : plotData[i].isSynthetic}

(***************************************************************************)
(* C9: for every non-empty input with pairwise distinct deviceUuids the    *)
(* response exists and every input device is listed in exactly one         *)
(* returned cluster and in exactly one plotData entry that is not          *)
(* synthetic.                                                              *)
(***************************************************************************)
C9_EveryDeviceOnce ==
    (ClustResponded /\ Len(creq.data) >= 1 /\ DistinctIds) =>
        /\ cstatus = 200
        /\ \A d \in InputIds :
              /\ Cardinality(Listings(d)) = 1
              /\ Cardinality(RealPlotEntries(d)) = 1

(***************************************************************************)
(* C10: with a single device (N = 1) the request does not fail: the        *)
(* result is one trivial cluster holding all the devices, with no          *)
(* synthetic points and no placeholder clusters.                           *)
(***************************************************************************)
C10_SingleDeviceTrivialCluster ==
    (ClustResponded /\ Len(creq.data) = 1) =>
        /\ cstatus = 200
        /\ Len(clusters) = 1
        /\ clusters[1].deviceUuids = <<creq.data[1].deviceUuid>>
        /\ SyntheticEntries = {}

(***************************************************************************)
(* C11: the radius search keeps the first candidate whose number of        *)
(* clusters is closest to the target and stops at the first candidate that *)
(* meets the target exactly: of several candidates equally close the       *)
(* smallest radius is kept.                                                *)
(***************************************************************************)
SearchInput == SubSeq([i \in 1..Len(creq.data) |-> creq.data[i].pos], 1, Len(creq.data))

\* |number of clusters - target| of every candidate radius
CandidateDiffs ==
    SubSeq([k \in 1..Len(EPS_RANGE) |->
               Abs(NClusters(DBSCAN(SearchInput, EPS_RANGE[k])) - TARGET_CLUSTERS)],
           1, Len(EPS_RANGE))

\* the first candidate of diffs with the smallest value
FirstClosest(diffs) ==
    CHOOSE k \in 1..Len(diffs) :
        /\ \A n \in 1..Len(diffs) : diffs[k] <= diffs[n]
        /\ \A n \in 1..(k - 1) : diffs[n] > diffs[k]

\* the clusterId of every real device in plotData, in input order
KeptLabels == [i \in 1..Len(creq.data) |-> plotData[i].clusterId]

C11_FirstClosestRadiusKept ==
    (ClustResponded /\ cstatus = 200) =>
        \E diffs \in {CandidateDiffs} : \E kept \in {FirstClosest(diffs)} :
            /\ search.best_eps = EPS_RANGE[kept]
            /\ search.evaluated = IF diffs[kept] = 0 THEN kept ELSE Len(EPS_RANGE)
            /\ \E lbl \in {DBSCAN(SearchInput, EPS_RANGE[kept])} :
                  KeptLabels = [i \in 1..Len(creq.data) |-> LabelString(lbl[i])]

\* no candidate meets the target, and a larger radius with another number of
\* clusters is as close to it as the radius kept
C11_Witness ==
    /\ ClustResponded /\ cstatus = 200
    /\ search.evaluated = Len(EPS_RANGE)
    /\ \E diffs \in {CandidateDiffs} : \E kept \in {FirstClosest(diffs)} :
          \E k \in (kept + 1)..Len(EPS_RANGE) :
              /\ diffs[k] = diffs[kept]
              /\ NClusters(DBSCAN(SearchInput, EPS_RANGE[k]))
                    # NClusters(DBSCAN(SearchInput, EPS_RANGE[kept]))
              /\ search.best_eps = EPS_RANGE[kept]

(***************************************************************************)
(* C12: the deviceUuid values of the plotData entries of one response are  *)
(* pairwise distinct, real and synthetic entries together.                 *)
(***************************************************************************)
C12_PlotIdsDistinct ==
    (ClustResponded /\ cstatus = 200 /\ DistinctIds) =>
        \A i \in 1..Len(plotData) : \A j \in (i + 1)..Len(plotData) :
            plotData[i].deviceUuid # plotData[j].deviceUuid

(***************************************************************************)
(* C18: synthetic points are excluded from scheduling: in a clustering     *)
(* response no synthetic id is in any cluster's deviceUuids and every      *)
(* placeholder cluster S1..Sk has no deviceUuids; scheduling the clusters  *)
(* of the response returns no placeholder cluster and no job with a        *)
(* synthetic id.                                                           *)
(***************************************************************************)
SyntheticIds == {plotData[i].deviceUuid : i \in SyntheticEntries}

PlaceholderIds == {"S" \o ToString(k) : k \in 1..Len(clusters)}

ForwardResponded == Responded /\ creq.kind = "forwarded"

C18_SyntheticExcludedFromScheduling ==
    /\ (ClustResponded /\ cstatus = 200 /\ DistinctIds) =>
          \A k \in 1..Len(clusters) :
              /\ Members(clusters[k]) \cap SyntheticIds = {}
              /\ clusters[k].clusterId \in PlaceholderIds
                    => clusters[k].deviceUuids = <<>>
    /\ (ForwardResponded /\ DistinctIds) =>
          \A i \in 1..Len(scheduled) :
              /\ scheduled[i].clusterId \notin PlaceholderIds
              /\ Members(scheduled[i]) \cap SyntheticIds = {}

(***************************************************************************)
(* C19: after every completed polling iteration exactly one of the three   *)
(* LEDs is high: yellow iff the sensor is warming up or an installation is *)
(* running; otherwise red iff the last line of either log, lower-cased as *)
(* get_log_tail returns it, contains "error"; otherwise green.  Red is     *)
(* never shown while an installation is running.                           *)
(***************************************************************************)
IterationCompleted == mon = "sleeping"

Warming == obs.warmupPin = "HIGH"

Installing == obs.apt # <<>> \/ obs.dpkg # <<>>

HighLeds == {l \in {"green", "yellow", "red"} : gpio[l]}

ErrorInLastLine ==
    \/ Contains(Lower(obs.dpkgLog), ErrorWord)
    \/ Contains(Lower(obs.upfluxLog), ErrorWord)

C19_LedPriority ==
    IterationCompleted =>
        /\ Cardinality(HighLeds) = 1
        /\ gpio.yellow <=> (Warming \/ Installing)
        /\ ~(Warming \/ Installing) => (gpio.red <=> ErrorInLastLine)
        /\ Installing => ~gpio.red

\* an installation runs while the last dpkg line reports an error: yellow
C19_Witness ==
    /\ IterationCompleted
    /\ ~Warming /\ Installing
    /\ ErrorInLastLine
    /\ HighLeds = {"yellow"}

(***************************************************************************)
(* C13: the output lists the scheduled clusters in ascending order of      *)
(* their feasible window start, clusters with equal window start in input  *)
(* order, whatever the input order; repair does not change the list order. *)
(***************************************************************************)
InputPosition(j) ==
    CHOOSE k \in 1..Len(ClustersInput(req)) : ClustersInput(req)[k] = AsCluster(j)

C13_OutputInWindowStartOrder ==
    (Responded /\ status = 200) =>
        /\ \A i \in 1..Len(scheduled) : \A j \in (i + 1)..Len(scheduled) :
              \/ WindowStartOf(scheduled[i]) < WindowStartOf(scheduled[j])
              \/ /\ WindowStartOf(scheduled[i]) = WindowStartOf(scheduled[j])
                 /\ InputPosition(scheduled[i]) < InputPosition(scheduled[j])
        /\ StripTimes(scheduled) = StripTimes(greedy)

\* two clusters returned in the reverse of their input order, one of them repaired
C13_Witness ==
    /\ Responded /\ status = 200
    /\ Len(scheduled) >= 2
    /\ InputPosition(scheduled[1]) > InputPosition(scheduled[2])
    /\ scheduled # greedy

(***************************************************************************)
(* C14: placement sweeps the sorted feasible clusters with a cursor that   *)
(* starts at now + setup; a cluster starts at max(windowStart, cursor), is *)
(* accepted iff start + payload <= windowEnd, and then moves the cursor to *)
(* start + max(payload, minimum gap); a cluster that is not accepted is    *)
(* dropped and leaves the cursor where it was.                             *)
(***************************************************************************)
RECURSIVE SweepFrom(_, _)
SweepFrom(i, cursor) ==
    IF i > Len(jobs) THEN <<>>
    ELSE LET start == Max2(jobs[i].windowStart, cursor)
         IN IF start + UPDATE_PAYLOAD_SEC <= jobs[i].windowEnd
            THEN <<[clusterId |-> jobs[i].clusterId, start |-> start]>>
                 \o SweepFrom(i + 1, start + Max2(UPDATE_PAYLOAD_SEC, MIN_CLUSTER_GAP_SEC))
            ELSE SweepFrom(i + 1, cursor)

C15_RepairUsesOwnWindow ==
    (Responded /\ status = 200) =>
        \A i \in 2..Len(scheduled) :
            LET ideal == Max2(TimeOf(scheduled[i - 1]) + UPDATE_PAYLOAD_SEC,
                              WindowStartOf(scheduled[i]))
            IN TimeOf(scheduled[i]) =
                 IF ideal + UPDATE_PAYLOAD_SEC <= WindowEndOf(scheduled[i])
                 THEN ideal ELSE TimeOf(greedy[i])

(***************************************************************************)
(* C16: repair never moves a job later than its greedy start, and never    *)
(* moves the first accepted job.                                           *)
(***************************************************************************)
C16_RepairOnlyShrinks ==
    (Responded /\ status = 200) =>
        /\ Len(scheduled) = Len(greedy)
        /\ \A i \in 1..Len(scheduled) : TimeOf(scheduled[i]) <= TimeOf(greedy[i])
        /\ Len(scheduled) >= 1 => TimeOf(scheduled[1]) = TimeOf(greedy[1])

\* a job pulled earlier by the repair, after a drop in placement
C16_Witness ==
    /\ Responded /\ status = 200
    /\ SomeDroppedInPlacement
    /\ \E i \in 2..Len(scheduled) : TimeOf(scheduled[i]) < TimeOf(greedy[i])

(***************************************************************************)
(* C17: a request and the same request without one cluster that fails the  *)
(* feasibility stage return the same clusters with the same times.         *)
(***************************************************************************)
C17_InfeasibleClusterIsolated ==
    (Responded /\ round >= 1 /\ prev.how = "withdrawn") =>
        /\ status = 200
        /\ scheduled = prev.scheduled

\* the withdrawn cluster had a member with a window shorter than payload +
\* setup, and two other clusters were scheduled
C17_Witness ==
    /\ Responded /\ round >= 1 /\ prev.how = "withdrawn"
    /\ \E i \in 1..Len(prev.withdrawn.deviceUuids) :
          LET info == IdleMap(req.aggregatorData, prev.withdrawn.deviceUuids[i])
          IN info # Absent /\ info.nextIdleTime # EmptyString
             /\ info.idleDurationSecs < UPDATE_PAYLOAD_SEC + CLUSTER_SETUP_SEC
    /\ Len(scheduled) >= 2

(***************************************************************************)
(* C20: every returned job starts at or after now + setupDuration, also    *)
(* when its feasible window started before now.                            *)
(***************************************************************************)
C20_NotBeforeSetupLead ==
    (Responded /\ status = 200) =>
        \A i \in 1..Len(scheduled) :
            TimeOf(scheduled[i]) >= req.now + CLUSTER_SETUP_SEC

\* a window that started before now, and a later job that was repaired
C20_Witness ==
    /\ Responded /\ status = 200
    /\ Len(scheduled) >= 2
    /\ WindowStartOf(scheduled[1]) < req.now
    /\ scheduled # greedy

====
